---- MODULE Spec2Model ----
(***************************************************************************)
(* Model of examples/express-AppPlatform-mcp-server-streamable/src/index.ts *)
(* : the start-up sequence of the process, the Express middleware stack in  *)
(* the order the file registers it, the POST /mcp handler with its catch    *)
(* branch, and the single module-level StreamableHTTPServerTransport that   *)
(* every request is handed to.                                              *)
(*                                                                          *)
(* JavaScript runs one callback at a time: `cur` is the request whose       *)
(* synchronous code is on the stack ("none" between callbacks).  A request  *)
(* gives up the stack only where the code awaits I/O: the body read of      *)
(* express.json, the file lookup of express.static, the upstream token      *)
(* verification of the bearer middleware, and `await handleRequest`.        *)
(***************************************************************************)
EXTENDS Integers, Sequences, FiniteSets, TLC

VARIABLES
    env,        \* process.env restricted to the required variables
    proc,       \* position of the module's top-level code / process state
    exitCode,   \* argument of process.exit, -1 while the process runs
    exitAt,     \* the process.exit call that ended the process, or "none"
    reported,   \* the array passed to console.error at line 17
    cur,        \* request whose synchronous code is running, or "none"
    req,        \* per connection: the inbound request
    st,         \* per connection: where the request is
    pc,         \* per connection: index of the next layer of the Express stack
    res,        \* per connection: the response object
    auth,       \* per connection: req.auth
    hist,       \* per connection: what has happened to the request (history)
    mapping,    \* transport: JSON-RPC id -> connection holding its stream
    inflight,   \* messages handed to the MCP server, not yet answered
    up,         \* the upstream identity provider: the tokens it has revoked
    cfg,        \* the options the auth router was built with
    sig,        \* the SIGINT handler: where it is and what it has attempted
    tool,       \* the run of a weather tool: its arguments, requests and result
    py          \* the call of a handler wrapped by the Python require_auth

vars == <<env, proc, exitCode, exitAt, reported, cur, req, st, pc, res, auth, hist,
          mapping, inflight, up, cfg, sig, tool, py>>

\* the parts of the repository that run apart from the HTTP pipeline
sideVars == <<tool, py>>
reqVars == <<req, st, pc, res, auth, hist, mapping, inflight, cur, up, cfg, sig, sideVars>>
bootVars == <<env, proc, exitCode, exitAt, reported, cfg, sig, sideVars>>
procVars == <<bootVars, up>>

(***************************************************************************)
(* Bounds                                                                  *)
(***************************************************************************)
\* numeric JSON-RPC ids range over 0..MaxId
MaxId == 1

\* the number of SIGINT signals delivered to the process
MaxSignals == 2

\* the connections that can be open at the same time
Reqs == {"r1", "r2"}

(***************************************************************************)
(* JavaScript values: undefined, null, numbers and strings                 *)
(***************************************************************************)
Undefined == [t |-> "undefined", n |-> 0, s |-> ""]
Null == [t |-> "null", n |-> 0, s |-> ""]
Num(n) == [t |-> "number", n |-> n, s |-> ""]
Str(s) == [t |-> "string", n |-> 0, s |-> s]

\* ToBoolean of the language
Truthy(v) ==
    CASE v.t = "undefined" -> FALSE
      [] v.t = "null" -> FALSE
      [] v.t = "number" -> v.n # 0
      [] v.t = "string" -> v.s # ""

\* a || b
JsOr(a, b) == IF Truthy(a) THEN a ELSE b

(***************************************************************************)
(* Start-up: lines 10-27                                                   *)
(***************************************************************************)
requiredEnvVars == <<"DESCOPE_PROJECT_ID", "DESCOPE_MANAGEMENT_KEY", "SERVER_URL">>

EnvNames == {requiredEnvVars[i] : i \in 1..Len(requiredEnvVars)}

\* a variable of the environment is unset, set to the empty string, or set
EnvValues == {Undefined, Str(""), Str("x")}

missingEnvVarsFirstOnly(e) ==
    SelectSeq(SubSeq(requiredEnvVars, 1, 1), LAMBDA v : ~Truthy(e[v]))

\* requiredEnvVars.filter(varName => !process.env[varName])
missingEnvVars(e) == SelectSeq(requiredEnvVars, LAMBDA v : ~Truthy(e[v]))

(***************************************************************************)
(* Requests                                                                *)
(***************************************************************************)
\* request paths, as their segments
PathRoot == <<>>
PathMcp == <<"mcp">>
PathWellKnown == <<".well-known", "oauth-authorization-server">>
PathHealth == <<"health">>
PathRegister == <<"register">>
PathRevoke == <<"revoke">>
PathIndex == <<"index.html">>
PathOther == <<"nope">>

\* files under ./public that express.static can serve
PublicFiles == {PathIndex}

\* what the Authorization header carries, as the upstream provider sees it
Tokens == {"none", "valid", "expired", "invalid", "noscope"}

\* the id member of the inbound JSON-RPC message
IdValues == {Undefined, Str(""), Str("a")} \cup {Num(n) : n \in 0..MaxId}

NoOrigin == ""
Origins == {NoOrigin, "https://a.example"}

\* the request body: absent, not parseable as JSON, or a JSON object; `arg`
\* is what an object carries for the OAuth endpoints: "redirect_uris" when a
\* registration payload has that member, the token of a revocation payload,
\* the method of a JSON-RPC message ("unknown" names a method the server has
\* no handler for, every other value one it has)
Body(kind, id, arg) == [kind |-> kind, id |-> id, arg |-> arg]

Bodies ==
    {Body("none", Undefined, ""), Body("malformed", Undefined, "")}
    \cup {Body("object", i, "") : i \in IdValues}

NoReq == [method |-> "", path |-> PathRoot, tok |-> "none",
          body |-> Body("none", Undefined, ""), origin |-> NoOrigin]

\* the requests the model sends
Inputs ==
    {[method |-> "POST", path |-> PathMcp, tok |-> t, body |-> b, origin |-> NoOrigin] :
        t \in Tokens, b \in Bodies}
    \cup {[method |-> "GET", path |-> PathMcp, tok |-> t, body |-> NoReq.body,
           origin |-> NoOrigin] : t \in Tokens}
    \cup {[method |-> m, path |-> p, tok |-> "none", body |-> NoReq.body, origin |-> o] :
        m \in {"GET", "OPTIONS"}, p \in {PathWellKnown}, o \in Origins}
    \cup {[method |-> "OPTIONS", path |-> PathMcp, tok |-> "none", body |-> NoReq.body,
           origin |-> o] : o \in Origins}
    \cup {[method |-> "GET", path |-> p, tok |-> t, body |-> NoReq.body,
           origin |-> NoOrigin] :
        p \in {PathHealth, PathRoot, PathIndex, PathOther}, t \in {"none", "valid"}}
    \cup {[method |-> "POST", path |-> PathRegister, tok |-> "none",
           body |-> b, origin |-> NoOrigin] :
        b \in {Body("object", Undefined, ""), Body("object", Undefined, "redirect_uris"),
               Body("malformed", Undefined, "")}}
    \cup {[method |-> "POST", path |-> PathRevoke, tok |-> "none",
           body |-> Body("object", Undefined, "invalid"), origin |-> NoOrigin]}

\* the tokens the upstream provider can revoke
Revocable == {"valid"}

\* the requests sent to the gateway when its upstream provider revokes, fails
\* and times out: two principals on /mcp, the OAuth endpoints, health
GatewayInputs ==
    {[method |-> m, path |-> PathMcp, tok |-> t, body |-> Body("object", Num(1), ""),
      origin |-> NoOrigin] :
        m \in {"POST", "GET"}, t \in {"none", "valid", "validB", "expired", "noscope"}}
    \cup {[method |-> "GET", path |-> p, tok |-> t, body |-> NoReq.body,
           origin |-> NoOrigin] :
        p \in {PathHealth, PathWellKnown}, t \in {"none", "valid"}}
    \cup {[method |-> "POST", path |-> PathRegister, tok |-> "none",
           body |-> b, origin |-> NoOrigin] :
        b \in {Body("object", Undefined, ""), Body("object", Undefined, "redirect_uris"),
               Body("none", Undefined, ""), Body("malformed", Undefined, "")}}
    \cup {[method |-> "POST", path |-> PathRevoke, tok |-> "none",
           body |-> Body("object", Undefined, t), origin |-> NoOrigin] :
        t \in {"valid", "invalid"}}
    \cup {[method |-> "GET", path |-> PathOther, tok |-> "none", body |-> NoReq.body,
           origin |-> NoOrigin]}

\* req.body as the handlers see it: {} when express.json parsed nothing
BodyId(q) == IF q.body.kind = "object" THEN q.body.id ELSE Undefined

(***************************************************************************)
(* Responses                                                               *)
(***************************************************************************)
NoBody == [kind |-> "none", error |-> "", code |-> 0, message |-> "",
           id |-> Undefined, of |-> "none",
           issuer |-> "", registration |-> [origin |-> "", path |-> ""],
           clientId |-> ""]

EmptyRes == [status |-> 0, acao |-> "", acam |-> "", acah |-> "", wwwAuth |-> "",
             body |-> NoBody, headersSent |-> FALSE, ended |-> FALSE]

\* upstream: how the call to the provider made for the request ended; created:
\* the provider created a client for it; lateFor: the revoked tokens at the
\* time the request arrived; before: the revoked tokens just before the
\* provider handled the request's revocation
NoHist == [entered |-> FALSE, validator |-> "none", thrown |-> "none",
           writes |-> 0, catchRan |-> FALSE, by |-> "none", outcome |-> "none",
           upstream |-> "none", created |-> FALSE, lateFor |-> {}, before |-> {},
           after |-> {}, error |-> ""]

\* res.status(s).json(b) / res.end(): one complete response
Written(r0, s, b) ==
    [r0 EXCEPT !.status = s, !.body = b, !.headersSent = TRUE, !.ended = TRUE]

Doc(kind) == [NoBody EXCEPT !.kind = kind]
OAuthError(e) == [NoBody EXCEPT !.kind = "oauthError", !.error = e]

(***************************************************************************)
(* The Express stack, in registration order: lines 245-327                 *)
(***************************************************************************)
Use(name, path) ==
    [name |-> name, kind |-> "use", method |-> "*", path |-> path, anyPath |-> FALSE]
Route(name, method, path) ==
    [name |-> name, kind |-> "route", method |-> method, path |-> path, anyPath |-> FALSE]
RouteAny(name, method) ==
    [name |-> name, kind |-> "route", method |-> method, path |-> PathRoot, anyPath |-> TRUE]

StackBearerLast ==
    <<Use("json", PathRoot), Use("static", PathRoot), Use("cors", PathRoot),
      RouteAny("optionsCors", "OPTIONS"), Use("authRouter", PathRoot),
      Route("health", "GET", PathHealth),
      Route("wellKnownDebug", "GET", PathWellKnown),
      Route("root", "GET", PathRoot),
      Route("postMcp", "POST", PathMcp),
      Route("getMcp", "GET", PathMcp),
      Use("bearer", PathMcp)>>

StackBearerEverywhere ==
    <<Use("json", PathRoot), Use("static", PathRoot), Use("cors", PathRoot),
      RouteAny("optionsCors", "OPTIONS"), Use("bearer", PathRoot),
      Use("authRouter", PathRoot),
      Route("health", "GET", PathHealth),
      Route("wellKnownDebug", "GET", PathWellKnown),
      Route("root", "GET", PathRoot),
      Route("postMcp", "POST", PathMcp),
      Route("getMcp", "GET", PathMcp)>>

StackGetMcpToTransport ==
    <<Use("json", PathRoot), Use("static", PathRoot), Use("cors", PathRoot),
      RouteAny("optionsCors", "OPTIONS"), Use("authRouter", PathRoot),
      Use("bearer", PathMcp),
      Route("health", "GET", PathHealth),
      Route("wellKnownDebug", "GET", PathWellKnown),
      Route("root", "GET", PathRoot),
      Route("postMcp", "POST", PathMcp),
      Route("postMcp", "GET", PathMcp),
      Route("getMcp", "GET", PathMcp)>>

StackBearerUnmounted ==
    <<Use("json", PathRoot), Use("static", PathRoot), Use("cors", PathRoot),
      RouteAny("optionsCors", "OPTIONS"), Use("authRouter", PathRoot),
      Use("bearer", PathRoot),
      Route("health", "GET", PathHealth),
      Route("wellKnownDebug", "GET", PathWellKnown),
      Route("root", "GET", PathRoot),
      Route("postMcp", "POST", PathMcp),
      Route("getMcp", "GET", PathMcp)>>

StackBearerFirst ==
    <<Use("bearer", PathMcp),
      Use("json", PathRoot), Use("static", PathRoot), Use("cors", PathRoot),
      RouteAny("optionsCors", "OPTIONS"), Use("authRouter", PathRoot),
      Route("health", "GET", PathHealth),
      Route("wellKnownDebug", "GET", PathWellKnown),
      Route("root", "GET", PathRoot),
      Route("postMcp", "POST", PathMcp),
      Route("getMcp", "GET", PathMcp)>>

StackGetMcpBeforeBearer ==
    <<Use("json", PathRoot), Use("static", PathRoot), Use("cors", PathRoot),
      RouteAny("optionsCors", "OPTIONS"), Use("authRouter", PathRoot),
      Route("getMcp", "GET", PathMcp),
      Use("bearer", PathMcp),
      Route("health", "GET", PathHealth),
      Route("wellKnownDebug", "GET", PathWellKnown),
      Route("root", "GET", PathRoot),
      Route("postMcp", "POST", PathMcp)>>

Stack ==
    <<Use("json", PathRoot), Use("static", PathRoot), Use("cors", PathRoot),
      RouteAny("optionsCors", "OPTIONS"), Use("authRouter", PathRoot),
      Use("bearer", PathMcp),
      Route("health", "GET", PathHealth),
      Route("wellKnownDebug", "GET", PathWellKnown),
      Route("root", "GET", PathRoot),
      Route("postMcp", "POST", PathMcp),
      Route("getMcp", "GET", PathMcp)>>

IsPrefix(p, q) == Len(p) <= Len(q) /\ SubSeq(q, 1, Len(p)) = p

\* app.use(path, fn) matches every method and every path under `path`;
\* app.METHOD(path, fn) matches that method and that path
LayerMatches(l, q) ==
    IF l.kind = "use"
    THEN IsPrefix(l.path, q.path)
    ELSE l.method = q.method /\ (l.anyPath \/ l.path = q.path)

\* the request is running and the next layer of the stack is `name`, which matches
At(r, name) ==
    /\ cur = r
    /\ st[r] = "chain"
    /\ pc[r] <= Len(Stack)
    /\ Stack[pc[r]].name = name
    /\ LayerMatches(Stack[pc[r]], req[r])

AtAny(r, names) == \E name \in names : At(r, name)

(***************************************************************************)
(* Initial state: the process has just been started                        *)
(***************************************************************************)
\* no SIGINT has been delivered: no run of the handler
NoSig == <<>>

\* no tool is running
NoTool == [at |-> "idle", name |-> "", args |-> <<>>, requests |-> <<>>,
           fetched |-> <<>>, content |-> <<>>]

\* the Python exceptions: none pending, or one with its class and message
NoException == [class |-> "", status |-> 0, detail |-> ""]

\* the permissions argument of require_auth: None, or a list
PyPermissions(isNone, items) == [isNone |-> isNone, items |-> items]

\* no wrapped handler is being called
NoPy == [at |-> "idle", token |-> "", permissions |-> PyPermissions(TRUE, {}),
         granted |-> {}, func |-> "", raised |-> NoException, called |-> FALSE,
         status |-> 0, detail |-> ""]

\* descopeMcpAuthRouter() is called without a provider (line 261): the options
\* are the defaults, under which dynamic client registration is enabled (559)
AuthRouterDefaults == [isDisabled |-> FALSE]

Init ==
    /\ env \in [EnvNames -> EnvValues]
    /\ proc = "start"
    /\ exitCode = -1
    /\ exitAt = "none"
    /\ reported = <<>>
    /\ cur = "none"
    /\ req = [r \in Reqs |-> NoReq]
    /\ st = [r \in Reqs |-> "idle"]
    /\ pc = [r \in Reqs |-> 1]
    /\ res = [r \in Reqs |-> EmptyRes]
    /\ auth = [r \in Reqs |-> "none"]
    /\ hist = [r \in Reqs |-> NoHist]
    /\ mapping = [i \in IdValues \ {Undefined} |-> "none"]
    /\ inflight = {}
    /\ up = [revoked |-> {}]
    /\ cfg = AuthRouterDefaults
    /\ sig = NoSig
    /\ tool = NoTool
    /\ py = NoPy

(***************************************************************************)
(* Start-up actions                                                        *)
(***************************************************************************)
\* lines 14-20: some required variable is missing
EnvMissing ==
    /\ proc = "start"
    /\ Len(missingEnvVars(env)) > 0
    /\ reported' = missingEnvVars(env)
    /\ proc' = "exited"
    /\ exitCode' = 1
    /\ exitAt' = "line 19"
    /\ UNCHANGED <<env, reqVars>>

\* lines 14-27: every required variable is set; the module goes on to build
\* the server, the app and the transport, and calls setupServer()
EnvLoaded ==
    /\ proc = "start"
    /\ Len(missingEnvVars(env)) = 0
    /\ proc' = "connecting"
    /\ UNCHANGED <<env, exitCode, exitAt, reported, reqVars>>

\* lines 330-338: server.connect(transport) resolved
SetupServerOk ==
    /\ proc = "connecting"
    /\ proc' = "connected"
    /\ UNCHANGED <<env, exitCode, exitAt, reported, reqVars>>

\* lines 339-342 and 373-376: server.connect(transport) rejected
SetupServerFail ==
    /\ proc = "connecting"
    /\ proc' = "exited"
    /\ exitCode' = 1
    /\ exitAt' = "line 375"
    /\ UNCHANGED <<env, reported, reqVars>>

ListenWithoutWaiting(p) == p \in {"connecting", "connected"}

\* lines 346-347: app.listen is called in the then() of setupServer()
ListenAfter(p) == p = "connected"

\* lines 347-371: app.listen
Listen ==
    /\ ListenAfter(proc)
    /\ proc' = "listening"
    /\ UNCHANGED <<env, exitCode, exitAt, reported, reqVars>>

(***************************************************************************)
(* The request pipeline                                                    *)
(***************************************************************************)
\* the layer calls next(): the request goes on to the following layer
GoNext(r) ==
    /\ pc' = [pc EXCEPT ![r] = @ + 1]
    /\ st' = [st EXCEPT ![r] = "chain"]
    /\ cur' = r

\* the layer `by` writes a complete response and the request's code is over;
\* h is the request's history up to this write
RespondH(r, newRes, by, h) ==
    /\ res' = [res EXCEPT ![r] = newRes]
    /\ hist' = [hist EXCEPT ![r] = [h EXCEPT !.writes = @ + 1, !.by = by]]
    /\ st' = [st EXCEPT ![r] = "finished"]
    /\ cur' = "none"
    /\ UNCHANGED pc

Respond(r, newRes, by) == RespondH(r, newRes, by, hist[r])

\* a connection is accepted and its request enters the stack
Arrive(r, q) ==
    /\ proc = "listening"
    /\ cur = "none"
    /\ st[r] = "idle"
    /\ req' = [req EXCEPT ![r] = q]
    /\ st' = [st EXCEPT ![r] = "chain"]
    /\ pc' = [pc EXCEPT ![r] = 1]
    /\ cur' = r
    /\ hist' = [hist EXCEPT ![r].lateFor = up.revoked]
    /\ UNCHANGED <<procVars, res, auth, mapping, inflight>>

\* the next layer of the stack does not match the request
SkipLayer(r) ==
    /\ cur = r
    /\ st[r] = "chain"
    /\ pc[r] <= Len(Stack)
    /\ ~LayerMatches(Stack[pc[r]], req[r])
    /\ GoNext(r)
    /\ UNCHANGED <<procVars, req, res, auth, hist, mapping, inflight>>

\* no layer answered: Express's final handler
FinalHandler(r) ==
    /\ cur = r
    /\ st[r] = "chain"
    /\ pc[r] = Len(Stack) + 1
    /\ Respond(r, Written(res[r], 404, Doc("notFound")), "final")
    /\ UNCHANGED <<procVars, req, auth, mapping, inflight>>

\* line 245, express.json(): a request without a body goes on at once, the
\* body of another is read first
ExpressJson(r) ==
    /\ At(r, "json")
    /\ IF req[r].body.kind = "none"
       THEN GoNext(r)
       ELSE /\ st' = [st EXCEPT ![r] = "reading"]
            /\ cur' = "none"
            /\ UNCHANGED pc
    /\ UNCHANGED <<procVars, req, res, auth, hist, mapping, inflight>>

\* line 245, express.json() once the body is read: a body that does not parse
\* is passed to next(err), which skips every layer and is answered 400 by the
\* default error handler
ExpressJsonRead(r) ==
    /\ cur = "none"
    /\ st[r] = "reading"
    /\ IF req[r].body.kind = "malformed"
       THEN /\ Respond(r, Written(res[r], 400, Doc("parseFailed")), "json")
       ELSE /\ GoNext(r)
            /\ UNCHANGED <<res, hist>>
    /\ UNCHANGED <<procVars, req, auth, mapping, inflight>>

\* line 246, express.static(): only GET looks a file up
ExpressStatic(r) ==
    /\ At(r, "static")
    /\ IF req[r].method = "GET"
       THEN /\ st' = [st EXCEPT ![r] = "stat"]
            /\ cur' = "none"
            /\ UNCHANGED pc
       ELSE GoNext(r)
    /\ UNCHANGED <<procVars, req, res, auth, hist, mapping, inflight>>

\* line 246, express.static() once the lookup is done
ExpressStaticStat(r) ==
    /\ cur = "none"
    /\ st[r] = "stat"
    /\ IF req[r].path \in PublicFiles
       THEN /\ Respond(r, Written(res[r], 200, Doc("file")), "static")
       ELSE /\ GoNext(r)
            /\ UNCHANGED <<res, hist>>
    /\ UNCHANGED <<procVars, req, auth, mapping, inflight>>

(***************************************************************************)
(* cors: lines 247-252                                                     *)
(***************************************************************************)
\* the options of line 247-251
CorsApp == [origin |-> "reflect", methods |-> "*",
            allowedHeaders |-> "Authorization, Origin, Content-Type, Accept, *"]

\* cors() without options, line 252
CorsDefault == [origin |-> "*", methods |-> "GET,HEAD,PUT,PATCH,POST,DELETE",
                allowedHeaders |-> ""]

\* Access-Control-Allow-Origin as cors computes it: "*" for the default, the
\* Origin header of the request for origin: true (no header when it has none)
ConfigureOrigin(opts, q) == IF opts.origin = "*" THEN "*" ELSE q.origin

\* the cors middleware: an OPTIONS request is a preflight, answered 204 here;
\* any other request gets the origin header and goes on
Cors(r) ==
    /\ AtAny(r, {"cors", "optionsCors"})
    /\ LET opts == IF Stack[pc[r]].name = "cors" THEN CorsApp ELSE CorsDefault
           withOrigin == [res[r] EXCEPT !.acao = ConfigureOrigin(opts, req[r])]
       IN IF req[r].method = "OPTIONS"
          THEN Respond(r, Written([withOrigin EXCEPT !.acam = opts.methods,
                                                      !.acah = opts.allowedHeaders],
                                  204, NoBody), "cors")
          ELSE /\ res' = [res EXCEPT ![r] = withOrigin]
               /\ GoNext(r)
               /\ UNCHANGED hist
    /\ UNCHANGED <<procVars, req, auth, mapping, inflight>>

(***************************************************************************)
(* descopeMcpAuthRouter(): line 261-262.  The router is the SDK's; the     *)
(* file documents the paths it mounts (lines 511, 616-619).                *)
(***************************************************************************)
\* the revocation endpoint of the gateway
RevocationHandled(q) == q.method = "POST" /\ q.path = PathRevoke

AuthRouterHandles(q) ==
    \/ q.method = "GET" /\ q.path = PathWellKnown
    \/ q.method = "POST" /\ q.path = PathRegister
    \/ RevocationHandled(q)

\* a URL as its origin and its path
Url(origin, path) == [origin |-> origin, path |-> path]

\* the configured server URLs told apart: with and without a trailing slash
ParseUrl(u) ==
    IF u = "https://srv/" THEN Url("https://srv", "/") ELSE Url(u, "")

\* the server URL the provider is configured with: SERVER_URL (lines 15, 536)
ServerUrl(e) == e["SERVER_URL"].s

IssuerNormalised(u) == IF ParseUrl(u).path = "" /\ u # "" THEN "https://srv/" ELSE u

\* the issuer of the metadata document: the configured URL as it was given
Issuer(u) == u

\* the registration endpoint: the /register path of the server URL
RegistrationEndpoint(u) == Url(ParseUrl(u).origin, "/register")

\* the metadata document, built from the configuration alone
Metadata(e) ==
    [Doc("metadata") EXCEPT !.issuer = Issuer(ServerUrl(e)),
                            !.registration = RegistrationEndpoint(ServerUrl(e))]

\* how a call to the upstream provider can end
UpstreamOutcomes == {"answered", "unavailable", "timeout"}

UpstreamFailureAsInvalidToken(o) ==
    IF o = "timeout" THEN [status |-> 401, error |-> "invalid_token"]
    ELSE [status |-> 503, error |-> "temporarily_unavailable"]

\* the answer given when the provider could not be reached or did not answer
\* in time: one shape for both
UpstreamFailure(o) == [status |-> 503, error |-> "temporarily_unavailable"]

\* the registrar's own check of a registration payload, made before anything
\* is sent upstream; status 0 stands for "forward it"
RegistrationCheck(q) ==
    IF q.body.kind = "object" /\ q.body.arg = "redirect_uris"
    THEN [status |-> 0, error |-> ""]
    ELSE [status |-> 400, error |-> "invalid_client_metadata"]

RegistrationDisabledAfterCheck(c, q) ==
    IF RegistrationCheck(q).status # 0 THEN RegistrationCheck(q)
    ELSE IF c.isDisabled THEN [status |-> 404, error |-> "not_found"]
    ELSE [status |-> 0, error |-> ""]

\* what the registrar decides before any upstream call: with registration
\* disabled every request gets the same 404, otherwise the payload is checked
RegistrationGate(c, q) ==
    IF c.isDisabled THEN [status |-> 404, error |-> "not_found"]
    ELSE RegistrationCheck(q)

RegistrationResultAlwaysIssued(o) ==
    [Doc("registration") EXCEPT !.clientId = "client-1"]

\* the body answering a forwarded registration: the client the provider
\* created, or the failure
RegistrationResult(o) ==
    IF o = "answered" THEN [Doc("registration") EXCEPT !.clientId = "client-1"]
    ELSE OAuthError(UpstreamFailure(o).error)

RevocationStatusUnknownIs404(known) == IF known THEN 200 ELSE 404

\* the status answering a revocation, whether or not the provider knew the token
RevocationStatus(known) == 200

\* the provider's record of revoked tokens after it was asked to revoke t
Revoke(u, t) == [u EXCEPT !.revoked = @ \cup ({t} \cap Revocable)]

\* the router answers its own paths and passes every other request on; whether
\* it puts a CORS origin header of its own on the metadata document is the
\* SDK's business: both are allowed for.  The metadata document and the
\* registrar's refusals are written at once; a registration or a revocation
\* that goes upstream suspends the request until the provider's call ends
AuthRouter(r) ==
    /\ At(r, "authRouter")
    /\ LET q == req[r]
           g == RegistrationGate(cfg, q)
       IN IF ~AuthRouterHandles(q)
          THEN /\ GoNext(r)
               /\ UNCHANGED <<res, hist>>
          ELSE IF q.path = PathWellKnown
          THEN \E own \in BOOLEAN :
                   Respond(r, Written(IF own THEN [res[r] EXCEPT !.acao = "*"] ELSE res[r],
                                      200, Metadata(env)), "authRouter")
          ELSE IF q.path = PathRegister /\ g.status # 0
          THEN Respond(r, Written(res[r], g.status, OAuthError(g.error)), "authRouter")
          ELSE /\ st' = [st EXCEPT ![r] = "upstream"]
               /\ cur' = "none"
               /\ UNCHANGED <<pc, res, hist>>
    /\ UNCHANGED <<procVars, req, auth, mapping, inflight>>

\* the provider's call for a registration ended
RegistrationDone(r, o) ==
    /\ cur = "none"
    /\ st[r] = "upstream"
    /\ req[r].path = PathRegister
    /\ RespondH(r, Written(res[r], IF o = "answered" THEN 201 ELSE UpstreamFailure(o).status,
                           RegistrationResult(o)),
                "authRouter",
                [hist[r] EXCEPT !.upstream = o, !.created = (o = "answered")])
    /\ UNCHANGED <<procVars, req, auth, mapping, inflight>>

\* the provider's call for a revocation ended
RevocationDone(r, o) ==
    /\ cur = "none"
    /\ st[r] = "upstream"
    /\ RevocationHandled(req[r])
    /\ LET t == req[r].body.arg
           u == IF o = "answered" THEN Revoke(up, t) ELSE up
       IN /\ up' = u
          /\ RespondH(r, Written(res[r], RevocationStatus(t \in Revocable), Doc("revoked")),
                      "authRouter",
                      [hist[r] EXCEPT !.upstream = o, !.before = up.revoked,
                                      !.after = u.revoked])
    /\ UNCHANGED <<bootVars, req, auth, mapping, inflight>>

(***************************************************************************)
(* descopeMcpBearerAuth(): line 263                                        *)
(***************************************************************************)
BearerDecisionSwapped(tok) ==
    CASE tok = "none" -> [status |-> 401, error |-> "invalid_request"]
      [] tok \in {"expired", "invalid"} -> [status |-> 403, error |-> "insufficient_scope"]
      [] tok = "noscope" -> [status |-> 401, error |-> "invalid_token"]
      [] OTHER -> [status |-> 200, error |-> ""]

\* what the validator decides for a token; status 200 stands for "accepted"
BearerDecision(tok) ==
    CASE tok = "none" -> [status |-> 401, error |-> "invalid_request"]
      [] tok \in {"expired", "invalid"} -> [status |-> 401, error |-> "invalid_token"]
      [] tok = "noscope" -> [status |-> 403, error |-> "insufficient_scope"]
      [] OTHER -> [status |-> 200, error |-> ""]

BearerReject(r, d) ==
    RespondH(r, Written([res[r] EXCEPT !.wwwAuth = "Bearer"], d.status, OAuthError(d.error)),
             "bearer", [hist[r] EXCEPT !.validator = "rejected"])

\* the middleware starts: without an Authorization header it rejects at once,
\* with one it asks the upstream provider to verify the token
BearerAuth(r) ==
    /\ At(r, "bearer")
    /\ IF req[r].tok = "none"
       THEN BearerReject(r, BearerDecision("none"))
       ELSE /\ st' = [st EXCEPT ![r] = "verifying"]
            /\ cur' = "none"
            /\ UNCHANGED <<pc, res, hist>>
    /\ UNCHANGED <<procVars, req, auth, mapping, inflight>>

TokenStatusLocalOnly(u, tok) == tok

\* a token as the provider sees it at the time it is asked: a revoked token
\* is an invalid one
TokenStatus(u, tok) == IF tok \in u.revoked THEN "invalid" ELSE tok

AttachEverywhere(a, r, p) == [x \in Reqs |-> p]

\* the principal is put on the request object: req.auth (lines 514-526)
Attach(a, r, p) == [a EXCEPT ![r] = p]

\* the verification came back: the provider failed, or it answered and the
\* token is rejected, or the principal is attached and the request goes on
BearerVerified(r, o) ==
    /\ cur = "none"
    /\ st[r] = "verifying"
    /\ LET d == BearerDecision(TokenStatus(up, req[r].tok))
           f == UpstreamFailure(o)
       IN IF o # "answered"
          THEN /\ RespondH(r, Written(res[r], f.status, OAuthError(f.error)), "bearer",
                           [hist[r] EXCEPT !.upstream = o])
               /\ UNCHANGED auth
          ELSE IF d.status = 200
          THEN /\ auth' = Attach(auth, r, req[r].tok)
               /\ hist' = [hist EXCEPT ![r].validator = "accepted", ![r].upstream = o]
               /\ GoNext(r)
               /\ UNCHANGED res
          ELSE /\ RespondH(r, Written([res[r] EXCEPT !.wwwAuth = "Bearer"], d.status,
                                      OAuthError(d.error)),
                           "bearer",
                           [hist[r] EXCEPT !.validator = "rejected", !.upstream = o])
               /\ UNCHANGED auth
    /\ UNCHANGED <<procVars, req, mapping, inflight>>

(***************************************************************************)
(* The GET routes: lines 266-295 and 320-327                               *)
(***************************************************************************)
\* line 266-268
healthHandler(r0) == Written(r0, 200, Doc("health"))

\* line 271-278: sets three headers and calls next()
wellKnownDebugHandler(r0) ==
    [r0 EXCEPT !.acao = "*", !.acam = "GET, OPTIONS",
               !.acah = "Content-Type, Authorization"]

\* line 281-295
rootHandler(r0) == Written(r0, 200, Doc("root"))

\* line 320-327
getMcpHandler(r0) == Written(r0, 200, Doc("capabilities"))

GetRoutes == {"health", "wellKnownDebug", "root", "getMcp"}

AppGet(r) ==
    /\ AtAny(r, GetRoutes)
    /\ LET name == Stack[pc[r]].name
       IN CASE name = "wellKnownDebug" ->
                 /\ res' = [res EXCEPT ![r] = wellKnownDebugHandler(res[r])]
                 /\ GoNext(r)
                 /\ UNCHANGED hist
            [] name = "health" -> Respond(r, healthHandler(res[r]), name)
            [] name = "root" -> Respond(r, rootHandler(res[r]), name)
            [] name = "getMcp" ->
                 RespondH(r, getMcpHandler(res[r]), name,
                          [hist[r] EXCEPT !.entered = TRUE])
    /\ UNCHANGED <<procVars, req, auth, mapping, inflight>>

(***************************************************************************)
(* POST /mcp: lines 298-317, and the transport of lines 255-257            *)
(***************************************************************************)
\* line 298-303: the handler is entered and calls transport.handleRequest
PostMcp(r) ==
    /\ At(r, "postMcp")
    /\ st' = [st EXCEPT ![r] = "dispatching"]
    /\ hist' = [hist EXCEPT ![r].entered = TRUE]
    /\ UNCHANGED <<procVars, req, pc, res, auth, mapping, inflight, cur>>

\* transport.handleRequest is running for r and has not yet returned or thrown
InTransport(r) == cur = r /\ st[r] = "dispatching" /\ hist[r].outcome = "none"

\* the message is a JSON-RPC request (it has an id): the transport sends the
\* response head, records the connection under the id of the message, hands
\* the message to the server and returns
TransportStream(r) ==
    /\ InTransport(r)
    /\ BodyId(req[r]) # Undefined
    /\ res' = [res EXCEPT ![r].status = 200, ![r].headersSent = TRUE]
    /\ mapping' = [mapping EXCEPT ![BodyId(req[r])] = r]
    /\ inflight' = inflight \cup {[from |-> r, id |-> BodyId(req[r]), auth |-> auth[r],
                                   method |-> req[r].body.arg]}
    /\ hist' = [hist EXCEPT ![r].outcome = "returned"]
    /\ cur' = "none"
    /\ UNCHANGED <<procVars, req, st, pc, auth>>

ParseError == [NoBody EXCEPT !.kind = "rpcError", !.code = -32700,
                             !.message = "Parse error", !.id = Null]

\* the transport answers the request itself and returns: 202 for a message
\* without an id (a notification), an error of its own for a message it refuses
TransportAnswer(r) ==
    /\ InTransport(r)
    /\ LET notification == req[r].body.kind = "object" /\ BodyId(req[r]) = Undefined
           answer == IF notification THEN Written(res[r], 202, NoBody)
                     ELSE Written(res[r], 400, ParseError)
       IN res' = [res EXCEPT ![r] = answer]
    /\ hist' = [hist EXCEPT ![r].outcome = "returned", ![r].writes = @ + 1,
                            ![r].by = "transport"]
    /\ cur' = "none"
    /\ UNCHANGED <<procVars, req, st, pc, auth, mapping, inflight>>

\* what transport.handleRequest can throw: errors that differ in their message
Errors == {"TypeError: x is not a function", "connect ECONNREFUSED token=s3cr3t"}

\* transport.handleRequest throws: before anything was written, or after the
\* response head went out, with the response ended or left open
TransportThrow(r, after, ended, e) ==
    /\ InTransport(r)
    /\ ~after => ~ended
    /\ res' = [res EXCEPT ![r].status = IF after THEN 200 ELSE @,
                          ![r].headersSent = after,
                          ![r].ended = ended]
    /\ hist' = [hist EXCEPT ![r].outcome = "threw",
                            ![r].thrown = IF after THEN "after" ELSE "before",
                            ![r].error = e,
                            ![r].writes = IF ended THEN @ + 1 ELSE @,
                            ![r].by = IF ended THEN "transport" ELSE @]
    /\ cur' = "none"
    /\ UNCHANGED <<procVars, req, st, pc, auth, mapping, inflight>>

\* line 303 -> 317: the await resolved, the handler returns
McpReturn(r) ==
    /\ cur = "none"
    /\ st[r] = "dispatching"
    /\ hist[r].outcome = "returned"
    /\ st' = [st EXCEPT ![r] = "finished"]
    /\ UNCHANGED <<procVars, req, pc, res, auth, hist, mapping, inflight, cur>>

\* line 313: req.body?.id || null
ErrorId(q) == JsOr(BodyId(q), Null)

ErrorEnvelopeWithCause(q, error) ==
    [NoBody EXCEPT !.kind = "rpcError", !.code = -32603,
                   !.message = error, !.id = ErrorId(q)]

\* line 307-314: the body written for the request q when `error` was caught
ErrorEnvelope(q, error) ==
    [NoBody EXCEPT !.kind = "rpcError", !.code = -32603,
                   !.message = "Internal server error", !.id = ErrorId(q)]

CatchWritesAlways(r0) == TRUE

\* line 306: if (!res.headersSent)
CatchWrites(r0) == ~r0.headersSent

\* line 304-316: the catch branch
McpCatch(r) ==
    /\ cur = "none"
    /\ st[r] = "dispatching"
    /\ hist[r].outcome = "threw"
    /\ IF CatchWrites(res[r])
       THEN /\ res' = [res EXCEPT ![r] = Written(res[r], 500,
                                                      ErrorEnvelope(req[r], hist[r].error))]
            /\ hist' = [hist EXCEPT ![r].catchRan = TRUE, ![r].writes = @ + 1,
                                    ![r].by = "catch"]
       ELSE /\ hist' = [hist EXCEPT ![r].catchRan = TRUE]
            /\ UNCHANGED res
    /\ st' = [st EXCEPT ![r] = "finished"]
    /\ UNCHANGED <<procVars, req, pc, auth, mapping, inflight, cur>>

MethodRegistered(method) == method # "unknown"

\* what the MCP server answers to the message m: the result of the method's
\* handler, or the method-not-found error, under the id of the message
ServerReply(m) ==
    IF MethodRegistered(m.method)
    THEN [NoBody EXCEPT !.kind = "rpcResponse", !.id = m.id, !.of = m.from]
    ELSE [NoBody EXCEPT !.kind = "rpcError", !.code = -32601,
                        !.message = "Method not found", !.id = m.id, !.of = m.from]

\* the MCP server answers a message: transport.send looks the connection up
\* under the id of the message, writes the response there and ends it; with no
\* connection under that id the response is dropped
ServerRespond(m) ==
    /\ cur = "none"
    /\ m \in inflight
    /\ inflight' = inflight \ {m}
    /\ LET conn == mapping[m.id]
       IN IF conn # "none" /\ ~res[conn].ended
          THEN /\ res' = [res EXCEPT ![conn].body = ServerReply(m),
                                         ![conn].ended = TRUE]
               /\ hist' = [hist EXCEPT ![conn].writes = @ + 1, ![conn].by = "server"]
               /\ mapping' = [mapping EXCEPT ![m.id] = "none"]
          ELSE UNCHANGED <<res, hist, mapping>>
    /\ UNCHANGED <<procVars, req, st, pc, auth, cur>>

\* the connection goes away once the request's code is over and the server
\* holds no message of it any more; the transport forgets the streams of a
\* closed connection
Close(r) ==
    /\ cur = "none"
    /\ st[r] = "finished"
    /\ \A m \in inflight : m.from # r
    /\ req' = [req EXCEPT ![r] = NoReq]
    /\ st' = [st EXCEPT ![r] = "idle"]
    /\ pc' = [pc EXCEPT ![r] = 1]
    /\ res' = [res EXCEPT ![r] = EmptyRes]
    /\ auth' = [auth EXCEPT ![r] = "none"]
    /\ hist' = [hist EXCEPT ![r] = NoHist]
    /\ mapping' = [i \in DOMAIN mapping |-> IF mapping[i] = r THEN "none" ELSE mapping[i]]
    /\ UNCHANGED <<procVars, inflight, cur>>

(***************************************************************************)
(* Specification                                                           *)
(***************************************************************************)
\* the steps of a request after it arrived, transport.handleRequest throwing
\* the errors of errs
PipelineThrowing(r, errs) ==
    \/ SkipLayer(r)
    \/ FinalHandler(r)
    \/ ExpressJson(r)
    \/ ExpressJsonRead(r)
    \/ ExpressStatic(r)
    \/ ExpressStaticStat(r)
    \/ Cors(r)
    \/ AuthRouter(r)
    \/ \E o \in UpstreamOutcomes : RegistrationDone(r, o)
    \/ \E o \in UpstreamOutcomes : RevocationDone(r, o)
    \/ BearerAuth(r)
    \/ \E o \in UpstreamOutcomes : BearerVerified(r, o)
    \/ AppGet(r)
    \/ PostMcp(r)
    \/ TransportStream(r)
    \/ TransportAnswer(r)
    \/ \E after, ended \in BOOLEAN, e \in errs : TransportThrow(r, after, ended, e)
    \/ McpReturn(r)
    \/ McpCatch(r)
    \/ Close(r)

Pipeline(r) == PipelineThrowing(r, {"TypeError: x is not a function"})

RequestStep(r) ==
    \/ \E q \in Inputs : Arrive(r, q)
    \/ Pipeline(r)

Next ==
    \/ EnvMissing
    \/ EnvLoaded
    \/ SetupServerOk
    \/ SetupServerFail
    \/ Listen
    \/ \E r \in Reqs : RequestStep(r)
    \/ \E m \in inflight : ServerRespond(m)

Spec == Init /\ [][Next]_vars

(***************************************************************************)
(* The gateway together with its upstream provider: the router built with  *)
(* either setting of the registration option, the server URL given with    *)
(* and without a trailing slash, tokens revoked while requests are served  *)
(***************************************************************************)
GatewayEnvs ==
    {[v \in EnvNames |->
        CASE v = "SERVER_URL" -> Str(u)
          [] v = "DESCOPE_MANAGEMENT_KEY" -> k
          [] OTHER -> Str("x")] :
        u \in {"https://srv", "https://srv/"}, k \in {Undefined, Str("x")}}

InitGateway ==
    /\ env \in GatewayEnvs
    /\ proc = "start"
    /\ exitCode = -1
    /\ exitAt = "none"
    /\ reported = <<>>
    /\ cur = "none"
    /\ req = [r \in Reqs |-> NoReq]
    /\ st = [r \in Reqs |-> "idle"]
    /\ pc = [r \in Reqs |-> 1]
    /\ res = [r \in Reqs |-> EmptyRes]
    /\ auth = [r \in Reqs |-> "none"]
    /\ hist = [r \in Reqs |-> NoHist]
    /\ mapping = [i \in IdValues \ {Undefined} |-> "none"]
    /\ inflight = {}
    /\ up = [revoked |-> {}]
    /\ cfg \in {[isDisabled |-> b] : b \in BOOLEAN}
    /\ sig = NoSig
    /\ tool = NoTool
    /\ py = NoPy

GatewayStep(r) ==
    \/ \E q \in GatewayInputs : Arrive(r, q)
    \/ Pipeline(r)

NextGateway ==
    \/ EnvMissing
    \/ EnvLoaded
    \/ SetupServerOk
    \/ SetupServerFail
    \/ Listen
    \/ \E r \in Reqs : GatewayStep(r)
    \/ \E m \in inflight : ServerRespond(m)

SpecGateway == InitGateway /\ [][NextGateway]_vars

(***************************************************************************)
(* The MCP endpoint under authenticated messages of every kind of id, for  *)
(* methods the server has and has not, next to one request of each other   *)
(* kind                                                                    *)
(***************************************************************************)
McpInputs ==
    {[method |-> "POST", path |-> PathMcp, tok |-> "valid", body |-> Body("object", i, a),
      origin |-> NoOrigin] :
        i \in IdValues, a \in {"tools/call", "unknown"}}
    \cup {[method |-> "POST", path |-> PathMcp, tok |-> t, body |-> b, origin |-> NoOrigin] :
        t \in {"none", "valid"}, b \in {Body("malformed", Undefined, "")}}
    \cup {[method |-> "GET", path |-> p, tok |-> "none", body |-> NoReq.body,
           origin |-> NoOrigin] : p \in {PathHealth, PathOther}}
    \cup {[method |-> "POST", path |-> PathRegister, tok |-> "none",
           body |-> Body("object", Undefined, "redirect_uris"), origin |-> NoOrigin]}
    \cup {[method |-> "POST", path |-> PathRevoke, tok |-> "none",
           body |-> Body("object", Undefined, "invalid"), origin |-> NoOrigin]}

McpStep(r) ==
    \/ \E q \in McpInputs : Arrive(r, q)
    \/ PipelineThrowing(r, Errors)

NextMcp ==
    \/ EnvMissing
    \/ EnvLoaded
    \/ SetupServerOk
    \/ SetupServerFail
    \/ Listen
    \/ \E r \in Reqs : McpStep(r)
    \/ \E m \in inflight : ServerRespond(m)

SpecMcp == Init /\ [][NextMcp]_vars

(***************************************************************************)
(* The SIGINT handler: lines 379-395                                       *)
(***************************************************************************)
CloseOutcomes == {"resolves", "throws"}

\* the steps of the handler in their order
ShutdownSteps == <<"transport.close", "server.close">>

ShutdownExitCodeReportsFailure(failed) == IF failed = {} THEN 0 ELSE 1

\* line 394: process.exit(0), whatever the closes did
ShutdownExitCode(failed) == 0

\* lines 379-383: the signal is delivered while the process runs (the handler
\* is registered in the same turn as setupServer() is called); the handler
\* calls transport.close() and waits
Sigint ==
    /\ proc \notin {"start", "exited"}
    /\ Len(sig) < MaxSignals
    /\ sig' = Append(sig, [at |-> "transport.close", attempts |-> <<ShutdownSteps[1]>>,
                           failed |-> {}])
    /\ UNCHANGED <<env, proc, exitCode, exitAt, reported, req, st, pc, res, auth, hist,
                   mapping, inflight, cur, up, cfg, sideVars>>

\* lines 383-389: transport.close() resolved or threw (lines 384-386 log the
\* error); the handler calls server.close() and waits
TransportClosed(i, o) ==
    /\ proc # "exited"
    /\ i \in DOMAIN sig
    /\ sig[i].at = "transport.close"
    /\ sig' = [sig EXCEPT ![i].at = "server.close",
                          ![i].attempts = Append(@, ShutdownSteps[2]),
                          ![i].failed = IF o = "throws" THEN @ \cup {ShutdownSteps[1]} ELSE @]
    /\ UNCHANGED <<env, proc, exitCode, exitAt, reported, req, st, pc, res, auth, hist,
                   mapping, inflight, cur, up, cfg, sideVars>>

\* lines 389-394: server.close() resolved or threw (lines 391-393 log the
\* error); the process exits
ServerClosed(i, o) ==
    /\ proc # "exited"
    /\ i \in DOMAIN sig
    /\ sig[i].at = "server.close"
    /\ LET failed == IF o = "throws" THEN sig[i].failed \cup {ShutdownSteps[2]}
                     ELSE sig[i].failed
       IN /\ sig' = [sig EXCEPT ![i].at = "exited", ![i].failed = failed]
          /\ exitCode' = ShutdownExitCode(failed)
    /\ proc' = "exited"
    /\ exitAt' = "line 394"
    /\ UNCHANGED <<env, reported, req, st, pc, res, auth, hist,
                   mapping, inflight, cur, up, cfg, sideVars>>

NextLifecycle ==
    \/ EnvMissing
    \/ EnvLoaded
    \/ SetupServerOk
    \/ SetupServerFail
    \/ Listen
    \/ Sigint
    \/ \E i \in 1..MaxSignals, o \in CloseOutcomes : TransportClosed(i, o)
    \/ \E i \in 1..MaxSignals, o \in CloseOutcomes : ServerClosed(i, o)

SpecLifecycle == Init /\ [][NextLifecycle]_vars

\* the state of the HTTP server, which the parts below leave alone
httpVars == <<env, proc, exitCode, exitAt, reported, req, st, pc, res, auth, hist,
              mapping, inflight, cur, up, cfg, sig>>

\* the start of the parts that run apart from the server: a complete environment
InitSide == Init /\ \A v \in EnvNames : env[v] = Str("x")

(***************************************************************************)
(* The weather tools: lines 29-240                                         *)
(***************************************************************************)
\* the longest feature list and period list the weather service sends
MaxItems == 2

\* JSON null and the JSON objects the service can send; an object carries the
\* members the tools read, each present or not
JNull == [t |-> "null", features |-> Undefined, properties |-> Undefined]
JObject(features, properties) ==
    [t |-> "object", features |-> features, properties |-> properties]

\* a JSON array
JArray(items) == [t |-> "Array", items |-> items]

\* JavaScript truth of what makeNWSRequest returned
JTruthy(b) == b.t # "null"

SeqsUpTo(S, n) == UNION {[1..k -> S] : k \in 0..n}

\* the features of an alerts response (lines 61-69)
Features ==
    {[properties |-> [event |-> e, areaDesc |-> Str("Coast"), severity |-> Undefined,
                      status |-> Str("Actual"), headline |-> h]] :
        e \in {Undefined, Str(""), Str("Flood")}, h \in {Undefined, Str("Rain")}}

AlertsBodies ==
    {JNull, JObject(Undefined, Undefined)}
    \cup {JObject(JArray(fs), Undefined) : fs \in SeqsUpTo(Features, MaxItems)}

\* what a fetch can come to: the request fails, the response has a status
\* that is not 2xx, its body is not JSON, or it is ok with a JSON body
FetchOutcomes(bodies) ==
    {[kind |-> k, body |-> JNull] : k \in {"network", "unparseable"}}
    \cup {[kind |-> k, body |-> b] : k \in {"http", "ok"}, b \in bodies}

makeNWSRequestIgnoringStatus(o) ==
    IF o.kind \in {"network", "unparseable"} THEN JNull ELSE o.body

\* lines 43-59: fetch rejecting, the throw of line 52 and response.json()
\* rejecting all end in the catch, which returns null
makeNWSRequest(o) ==
    LET fetchThrows == o.kind = "network"
        responseOk == o.kind \in {"ok", "unparseable"}
        jsonThrows == o.kind = "unparseable"
    IN IF fetchThrows \/ ~responseOk \/ jsonThrows THEN JNull ELSE o.body

\* lines 72-82: the lines of a formatted alert
formatAlert(feature) ==
    LET props == feature.properties
    IN [event |-> JsOr(props.event, Str("Unknown")),
        area |-> JsOr(props.areaDesc, Str("Unknown")),
        severity |-> JsOr(props.severity, Str("Unknown")),
        status |-> JsOr(props.status, Str("Unknown")),
        headline |-> JsOr(props.headline, Str("No headline"))]

\* a text item of a tool result: the fixed part of its text and what is put in
TextItem(text, args, items) ==
    [type |-> "text", text |-> text, args |-> args, items |-> items]

\* line 117: state.toUpperCase()
toUpperCase(state) ==
    CASE state = "ca" -> "CA"
      [] state = "ny" -> "NY"
      [] OTHER -> state

StateArgs == {"ca", "CA", "ny"}

\* line 118
AlertsUrl(stateCode) == [path |-> "/alerts?area=", args |-> <<stateCode>>]

\* line 132: alertsData.features || []
FeaturesOf(alertsData) ==
    IF alertsData.features = Undefined THEN <<>> ELSE alertsData.features.items

\* lines 119-154: the result of get-alerts from what makeNWSRequest returned
GetAlertsResult(stateCode, alertsData) ==
    IF ~JTruthy(alertsData)
    THEN <<TextItem("Failed to retrieve alerts data", <<>>, <<>>)>>
    ELSE IF Len(FeaturesOf(alertsData)) = 0
    THEN <<TextItem("No active alerts for ", <<stateCode>>, <<>>)>>
    ELSE <<TextItem("Active alerts for ", <<stateCode>>,
                    [i \in DOMAIN FeaturesOf(alertsData) |->
                        formatAlert(FeaturesOf(alertsData)[i])])>>

\* lines 116-119: get-alerts is called and requests the alerts of the state
CallGetAlerts(state) ==
    /\ tool.at = "idle"
    /\ tool' = [NoTool EXCEPT !.at = "alerts", !.name = "get-alerts", !.args = <<state>>,
                              !.requests = <<AlertsUrl(toUpperCase(state))>>]
    /\ UNCHANGED <<httpVars, py>>

\* lines 119-154: the request is over and the tool returns
AlertsFetched(o) ==
    /\ tool.at = "alerts"
    /\ tool' = [tool EXCEPT !.at = "done", !.fetched = Append(@, o),
                            !.content = GetAlertsResult(toUpperCase(tool.args[1]),
                                                        makeNWSRequest(o))]
    /\ UNCHANGED <<httpVars, py>>

\* the grid-point responses (lines 97-101): properties and its forecast URL
ForecastUrls == {Undefined, Str(""), Str("https://api.weather.gov/gridpoints/LOX/1,2/forecast")}

PointsBodies ==
    {JNull, JObject(Undefined, Undefined)}
    \cup {JObject(Undefined, [forecast |-> f, periods |-> Undefined]) : f \in ForecastUrls}

\* the periods of a forecast response (lines 84-91)
Periods ==
    {[name |-> n, temperature |-> t, temperatureUnit |-> Undefined,
      windSpeed |-> Str("5 mph"), windDirection |-> Undefined,
      shortForecast |-> Undefined] :
        n \in {Undefined, Str("Tonight")}, t \in {Undefined, Num(0), Num(1)}}

ForecastBodies ==
    {JNull, JObject(Undefined, Undefined),
     JObject(Undefined, [forecast |-> Undefined, periods |-> Undefined])}
    \cup {JObject(Undefined, [forecast |-> Undefined, periods |-> JArray(ps)]) :
            ps \in SeqsUpTo(Periods, MaxItems)}

\* the coordinates the tool is called with (lines 162-163)
Coordinates == {<<34, -118>>}

\* line 167
PointsUrl(latitude, longitude) == [path |-> "/points/", args |-> <<latitude, longitude>>]

\* line 181: pointsData.properties?.forecast
ForecastUrlOf(pointsData) ==
    IF pointsData.properties = Undefined THEN Undefined ELSE pointsData.properties.forecast

\* line 206: forecastData.properties?.periods || []
PeriodsOf(forecastData) ==
    IF forecastData.properties = Undefined THEN <<>>
    ELSE IF forecastData.properties.periods = Undefined THEN <<>>
    ELSE forecastData.properties.periods.items

\* lines 219-227: the lines of a formatted period
formatPeriod(period) ==
    [name |-> JsOr(period.name, Str("Unknown")),
     temperature |-> JsOr(period.temperature, Str("Unknown")),
     temperatureUnit |-> JsOr(period.temperatureUnit, Str("F")),
     windSpeed |-> JsOr(period.windSpeed, Str("Unknown")),
     windDirection |-> JsOr(period.windDirection, Str("")),
     shortForecast |-> JsOr(period.shortForecast, Str("No forecast available"))]

\* lines 165-168: get-forecast is called and requests the grid point
CallGetForecast(latitude, longitude) ==
    /\ tool.at = "idle"
    /\ tool' = [NoTool EXCEPT !.at = "points", !.name = "get-forecast",
                              !.args = <<latitude, longitude>>,
                              !.requests = <<PointsUrl(latitude, longitude)>>]
    /\ UNCHANGED <<httpVars, py>>

ForecastFetchAfterPointsAlways(pointsData) == TRUE

\* lines 170 and 182: the forecast is requested when the grid-point data is
\* there and has a forecast URL
ForecastFetchAfterPoints(pointsData) ==
    JTruthy(pointsData) /\ Truthy(ForecastUrlOf(pointsData))

\* lines 168-194: the grid-point request is over; the tool returns a failure
\* or requests the forecast at the URL it was given
PointsFetched(o) ==
    /\ tool.at = "points"
    /\ LET pointsData == makeNWSRequest(o)
           forecastUrl == ForecastUrlOf(pointsData)
       IN IF ForecastFetchAfterPoints(pointsData)
          THEN tool' = [tool EXCEPT !.at = "forecast", !.fetched = Append(@, o),
                                    !.requests = Append(@, [path |-> forecastUrl.s,
                                                            args |-> <<>>])]
          ELSE IF ~JTruthy(pointsData)
          THEN tool' = [tool EXCEPT !.at = "done", !.fetched = Append(@, o),
                          !.content = <<TextItem("Failed to retrieve grid point data for coordinates: ",
                                                 tool.args, <<>>)>>]
          ELSE tool' = [tool EXCEPT !.at = "done", !.fetched = Append(@, o),
                          !.content = <<TextItem("Failed to get forecast URL from grid point data",
                                                 <<>>, <<>>)>>]
    /\ UNCHANGED <<httpVars, py>>

\* lines 194-238: the forecast request is over and the tool returns
ForecastFetched(o) ==
    /\ tool.at = "forecast"
    /\ LET forecastData == makeNWSRequest(o)
           periods == PeriodsOf(forecastData)
           content ==
               IF ~JTruthy(forecastData)
               THEN <<TextItem("Failed to retrieve forecast data", <<>>, <<>>)>>
               ELSE IF Len(periods) = 0
               THEN <<TextItem("No forecast periods available", <<>>, <<>>)>>
               ELSE <<TextItem("Forecast for ", tool.args, [i \in DOMAIN periods |-> formatPeriod(periods[i])])>>
       IN tool' = [tool EXCEPT !.at = "done", !.fetched = Append(@, o),
                               !.content = content]
    /\ UNCHANGED <<httpVars, py>>

\* the result went to the MCP server; the next call can come
ToolReturned ==
    /\ tool.at = "done"
    /\ tool' = NoTool
    /\ UNCHANGED <<httpVars, py>>

NextTools ==
    \/ \E state \in StateArgs : CallGetAlerts(state)
    \/ \E o \in FetchOutcomes(AlertsBodies) : AlertsFetched(o)
    \/ \E c \in Coordinates : CallGetForecast(c[1], c[2])
    \/ \E o \in FetchOutcomes(PointsBodies) : PointsFetched(o)
    \/ \E o \in FetchOutcomes(ForecastBodies) : ForecastFetched(o)
    \/ ToolReturned

SpecTools == InitSide /\ [][NextTools]_vars

(***************************************************************************)
(* The Python guide's require_auth decorator: src/unnamed/part_000,        *)
(* lines 133-162                                                           *)
(***************************************************************************)
PyPerms == {"read", "write"}
PyTokens == {"valid", "expired", "garbage"}

\* what the wrapped handler does when it is called
PyFuncs == {"returns", "raises"}

\* the permissions arguments: None, the empty list, lists of permissions
PyPermissionArgs ==
    {PyPermissions(TRUE, {})} \cup {PyPermissions(FALSE, ps) : ps \in SUBSET PyPerms}

\* Python truth of the argument (line 144: if permissions): None and [] are false
PyTruthy(p) == ~p.isNone /\ p.items # {}

\* client.validate_permissions: every asked permission is among the granted
validate_permissions(granted, permissions) == permissions.items \subseteq granted

\* str(e) of line 157
PyStr(e) == e.detail

\* line 155: except Exception catches every exception raised in the try
\* block, HTTPException included
ExceptException(e) == e.class \in {"AuthException", "HTTPException", "Exception"}

\* line 138: the wrapper is called; token and client are fetched
PyWrapper(token, permissions, granted, func) ==
    /\ py.at = "idle"
    /\ py' = [NoPy EXCEPT !.at = "validate_session", !.token = token,
                          !.permissions = permissions, !.granted = granted,
                          !.func = func]
    /\ UNCHANGED <<httpVars, tool>>

\* line 142: client.validate_session(token) returns the claims or raises
PyValidateSession ==
    /\ py.at = "validate_session"
    /\ IF py.token = "valid"
       THEN py' = [py EXCEPT !.at = "permissions"]
       ELSE py' = [py EXCEPT !.at = "except",
                             !.raised = [class |-> "AuthException", status |-> 0,
                                         detail |-> "Invalid token"]]
    /\ UNCHANGED <<httpVars, tool>>

\* lines 144-151: the permission check, raising HTTPException(403)
PyCheckPermissions ==
    /\ py.at = "permissions"
    /\ IF PyTruthy(py.permissions) /\ ~validate_permissions(py.granted, py.permissions)
       THEN py' = [py EXCEPT !.at = "except",
                             !.raised = [class |-> "HTTPException", status |-> 403,
                                         detail |-> "Insufficient permissions"]]
       ELSE py' = [py EXCEPT !.at = "func"]
    /\ UNCHANGED <<httpVars, tool>>

\* line 153: return await func(*args, **kwargs), still inside the try
PyFunc ==
    /\ py.at = "func"
    /\ IF py.func = "returns"
       THEN py' = [py EXCEPT !.at = "done", !.called = TRUE, !.status = 200]
       ELSE py' = [py EXCEPT !.at = "except", !.called = TRUE,
                             !.raised = [class |-> "Exception", status |-> 0,
                                         detail |-> "handler failed"]]
    /\ UNCHANGED <<httpVars, tool>>

\* lines 155-159: the exception is caught and HTTPException(401) raised in
\* its place; an exception the clause does not catch goes out as it is
PyExcept ==
    /\ py.at = "except"
    /\ IF ExceptException(py.raised)
       THEN py' = [py EXCEPT !.at = "done", !.status = 401, !.detail = PyStr(py.raised)]
       ELSE py' = [py EXCEPT !.at = "done", !.status = py.raised.status,
                             !.detail = py.raised.detail]
    /\ UNCHANGED <<httpVars, tool>>

\* the response went out; the next request can come
PyDone ==
    /\ py.at = "done"
    /\ py' = NoPy
    /\ UNCHANGED <<httpVars, tool>>

NextPy ==
    \/ \E t \in PyTokens, p \in PyPermissionArgs, g \in SUBSET PyPerms, f \in PyFuncs :
          PyWrapper(t, p, g, f)
    \/ PyValidateSession
    \/ PyCheckPermissions
    \/ PyFunc
    \/ PyExcept
    \/ PyDone

SpecPy == InitSide /\ [][NextPy]_vars

(***************************************************************************)
(* Properties                                                              *)
(***************************************************************************)
IsMcpPost(q) == q.method = "POST" /\ q.path = PathMcp

\* the route handler of /mcp has been entered for the request, or the
\* transport has been handed it
Handled(r) ==
    \/ hist[r].entered
    \/ st[r] = "dispatching"
    \/ hist[r].outcome # "none"
    \/ \E m \in inflight : m.from = r

\* C1: on the protected path the validator decides first: a request is handed
\* to a route handler of /mcp, and to transport.handleRequest, only after the
\* validator accepted its token; a rejected request never gets there.
C1_ValidatorBeforeHandler ==
    \A r \in Reqs :
        /\ Handled(r) => hist[r].validator = "accepted" /\ auth[r] = "valid"
        /\ hist[r].validator = "rejected" => ~Handled(r) /\ st[r] = "finished"

C1_Witness ==
    \E r \in Reqs :
        /\ IsMcpPost(req[r])
        /\ st[r] = "dispatching"
        /\ hist[r].validator = "accepted"

\* C2: every request to /mcp without an Authorization header, whatever its
\* body, is answered 401 with WWW-Authenticate: Bearer and no handler runs.
C2_NoHeaderIs401 ==
    \A r \in Reqs :
        (req[r].path = PathMcp /\ req[r].tok = "none" /\ res[r].ended)
            => /\ res[r].status = 401
               /\ res[r].wwwAuth = "Bearer"
               /\ ~Handled(r)

\* C3: a request gets at most one complete response: when handleRequest threw
\* after the headers were sent the catch branch writes nothing, and when it
\* threw before, the catch branch writes exactly one error response.
C3_AtMostOneWrite ==
    \A r \in Reqs :
        /\ hist[r].writes <= 1
        /\ (hist[r].catchRan /\ hist[r].thrown = "after") => hist[r].by # "catch"
        /\ (hist[r].catchRan /\ hist[r].thrown = "before")
              => /\ hist[r].by = "catch"
                 /\ hist[r].writes = 1
                 /\ res[r].status = 500
                 /\ res[r].ended

C3_Witness ==
    \E r \in Reqs :
        /\ hist[r].catchRan
        /\ hist[r].thrown = "after"
        /\ res[r].headersSent
        /\ st[r] = "finished"

\* C4: the error envelope of the catch branch carries the id of the inbound
\* message whenever the message has one (0 and "" included), and null only
\* when the message has none.
C4_EnvelopeKeepsId ==
    \A r \in Reqs :
        hist[r].by = "catch"
            => /\ res[r].body.kind = "rpcError"
               /\ res[r].body.code = -32603
               /\ res[r].body.id =
                     (IF BodyId(req[r]) = Undefined THEN Null ELSE BodyId(req[r]))

\* nothing is left to run for the request: its handler is over and the
\* transport holds no stream for its connection
Settled(r) == st[r] = "finished" /\ \A i \in DOMAIN mapping : mapping[i] # r

\* C5: a POST /mcp that passed the validator ends with a complete response,
\* whatever handleRequest did, and the process is still running.
C5_AlwaysResponded ==
    \A r \in Reqs :
        (IsMcpPost(req[r]) /\ hist[r].validator = "accepted" /\ Settled(r))
            => res[r].ended /\ proc = "listening"

Range(f) == {f[i] : i \in DOMAIN f}

Unset(v) == v = Undefined \/ v = Str("")

\* C6: with a required variable unset or empty the process reports every
\* missing name, exits with a non-zero code and never gets to connect or to
\* listen; with all three set the check of the environment exits nothing.
C6_FailFast ==
    LET missing == {v \in EnvNames : Unset(env[v])}
    IN /\ missing # {} => proc \in {"start", "exited"}
       /\ (missing # {} /\ proc = "exited")
             => /\ exitCode # 0 /\ exitCode # -1
                /\ exitAt = "line 19"
                /\ Range(reported) = missing
                /\ Len(reported) = Cardinality(missing)
                /\ \A r \in Reqs : st[r] = "idle"
       /\ missing = {} => exitAt # "line 19" /\ reported = <<>>

C6_Witness ==
    /\ proc = "exited"
    /\ Len(reported) = 2
    /\ Unset(env["SERVER_URL"])
    /\ ~Unset(env["DESCOPE_PROJECT_ID"])

\* C7: with a bearer token, the validator answers 401 invalid_token for an
\* expired or invalid token and 403 insufficient_scope for a valid token that
\* lacks a required scope, and the handler runs in neither case.
C7_RejectionCodes ==
    \A r \in Reqs :
        (req[r].tok # "none" /\ hist[r].validator # "none")
            => /\ req[r].tok \in {"expired", "invalid"}
                    => /\ res[r].status = 401
                       /\ res[r].body.error = "invalid_token"
                       /\ ~Handled(r)
               /\ req[r].tok = "noscope"
                    => /\ res[r].status = 403
                       /\ res[r].body.error = "insufficient_scope"
                       /\ ~Handled(r)

C7_Witness ==
    \E r \in Reqs :
        /\ req[r].tok = "noscope"
        /\ res[r].status = 403
        /\ res[r].ended

\* C8: discovery, registration and revocation never meet the bearer validator:
\* a GET of the discovery path without a token gets the metadata document and
\* no request to these paths is answered 401 or 403.
C8_OAuthPathsBypass ==
    \A r \in Reqs :
        /\ req[r].path \in {PathWellKnown, PathRegister, PathRevoke}
              => /\ hist[r].validator = "none"
                 /\ st[r] # "verifying"
                 /\ res[r].status \notin {401, 403}
        /\ (req[r].method = "GET" /\ req[r].path = PathWellKnown
                /\ req[r].tok = "none" /\ st[r] = "finished")
              => res[r].status = 200 /\ res[r].body.kind = "metadata"

C8_Witness ==
    \E r \in Reqs :
        /\ req[r].method = "GET"
        /\ req[r].path = PathWellKnown
        /\ req[r].tok = "none"
        /\ res[r].ended
        /\ res[r].body.kind = "metadata"

\* C9: every response to GET /.well-known/oauth-authorization-server carries
\* Access-Control-Allow-Origin: *, the methods GET, OPTIONS and the headers
\* Content-Type, Authorization, whichever layer answered and whatever Origin
\* the request sent.
C9_DiscoveryCors ==
    \A r \in Reqs :
        (req[r].method = "GET" /\ req[r].path = PathWellKnown /\ res[r].ended)
            => /\ res[r].acao = "*"
               /\ res[r].acam = "GET, OPTIONS"
               /\ res[r].acah = "Content-Type, Authorization"

\* C10: concurrent requests to POST /mcp do not touch each other: the JSON-RPC
\* response a connection receives answers the message that came in on that
\* connection.
C10_OwnResponse ==
    \A r \in Reqs :
        res[r].body.kind = "rpcResponse"
            => /\ res[r].body.of = r
               /\ res[r].body.id = BodyId(req[r])

IsRegistration(q) == q.method = "POST" /\ q.path = PathRegister

UpstreamFailed(r) == hist[r].upstream \in {"unavailable", "timeout"}

\* C12: when the call to the upstream provider made for a token validation or
\* a registration fails or times out, the request is answered 502 or 503,
\* never 401 and never invalid_token, and the validator has rejected nothing;
\* a timeout and an explicit unavailability get the same status and body.
C12_UpstreamFailureIsUnavailable ==
    /\ \A r \in Reqs :
          (UpstreamFailed(r) /\ req[r].path \in {PathMcp, PathRegister})
              => /\ res[r].status \in {502, 503}
                 /\ res[r].body.error # "invalid_token"
                 /\ res[r].body.clientId = ""
                 /\ hist[r].validator = "none"
                 /\ ~Handled(r)
    /\ \A r, x \in Reqs :
          (UpstreamFailed(r) /\ UpstreamFailed(x) /\ req[r].path = req[x].path
           /\ req[r].path \in {PathMcp, PathRegister})
              => res[r].status = res[x].status /\ res[r].body = res[x].body

C12_Witness ==
    \E r, x \in Reqs :
        /\ req[r].path = PathMcp /\ req[r].tok = "valid"
        /\ hist[r].upstream = "timeout" /\ res[r].status = 503
        /\ IsRegistration(req[x]) /\ hist[x].upstream = "unavailable"
        /\ res[x].status = 503

\* C13: every registration request whose payload lacks redirect_uris is
\* answered 400 with error invalid_client_metadata, and no call to the
\* upstream provider is made for it.
C13_MissingRedirectUris ==
    \A r \in Reqs :
        (IsRegistration(req[r]) /\ req[r].body.arg # "redirect_uris")
            => /\ st[r] # "upstream"
               /\ hist[r].upstream = "none"
               /\ st[r] = "finished"
                    => /\ res[r].status = 400
                       /\ res[r].body.error = "invalid_client_metadata"

\* the part of C13 that holds: no such request is ever sent upstream
C13_NoUpstreamCall ==
    \A r \in Reqs :
        (IsRegistration(req[r]) /\ req[r].body.arg # "redirect_uris")
            => st[r] # "upstream" /\ hist[r].upstream = "none" /\ ~hist[r].created

\* the gateway's own state holds nothing of the request on connection r
NoLocalRecord(r) ==
    /\ auth[r] = "none"
    /\ \A i \in DOMAIN mapping : mapping[i] # r
    /\ \A m \in inflight : m.from # r

\* C14: a registration is answered 201, and carries a non-empty client_id,
\* exactly when the upstream provider created the client; a valid request the
\* provider answered gets both; when the upstream call failed the response is
\* an error without a client_id; the gateway keeps nothing of a registration.
C14_ClientIdOnlyWhenCreated ==
    \A r \in Reqs :
        IsRegistration(req[r])
            => /\ res[r].status = 201 <=> hist[r].created
               /\ res[r].body.clientId # "" <=> hist[r].created
               /\ hist[r].upstream = "answered"
                    => res[r].status = 201 /\ res[r].body.clientId # ""
               /\ UpstreamFailed(r)
                    => /\ res[r].status \notin {200, 201}
                       /\ res[r].body.kind = "oauthError"
                       /\ res[r].body.clientId = ""
               /\ NoLocalRecord(r)

C14_Witness ==
    \E r, x \in Reqs :
        /\ IsRegistration(req[r]) /\ req[r].body.arg = "redirect_uris"
        /\ hist[r].created /\ res[r].status = 201 /\ res[r].body.clientId # ""
        /\ IsRegistration(req[x]) /\ req[x].body.arg = "redirect_uris"
        /\ UpstreamFailed(x) /\ st[x] = "finished" /\ res[x].body.clientId = ""

C17_PrincipalPerRequest ==
    /\ \A r \in Reqs :
          /\ auth[r] # "none"
                => /\ auth[r] = req[r].tok
                   /\ hist[r].validator = "accepted"
                   /\ st[r] # "idle"
          /\ st[r] = "idle" => auth[r] = "none"
    /\ \A m \in inflight : m.auth = req[m.from].tok /\ m.auth = auth[m.from]

C17_Witness ==
    \E r, x \in Reqs :
        /\ auth[r] = "valid" /\ st[r] = "dispatching"
        /\ auth[x] = "validB" /\ st[x] = "dispatching"
        /\ \E m \in inflight : m.from = r /\ m.auth = "valid"

\* the transport has been handed the request on connection r
Dispatched(r) ==
    \/ st[r] = "dispatching"
    \/ hist[r].outcome # "none"
    \/ \E m \in inflight : m.from = r
    \/ \E i \in DOMAIN mapping : mapping[i] = r

\* C18: a GET /mcp that reaches its route is answered 200 with the fixed
\* capability document by that route, and no request other than a POST /mcp
\* is ever handed to the transport.
C18_GetMcpIsStatic ==
    \A r \in Reqs :
        /\ (req[r].method = "GET" /\ req[r].path = PathMcp /\ hist[r].entered)
              => /\ st[r] = "finished"
                 /\ res[r].status = 200
                 /\ res[r].body = Doc("capabilities")
                 /\ hist[r].by = "getMcp"
        /\ ~IsMcpPost(req[r]) => ~Dispatched(r)

C18_Witness ==
    \E r, x \in Reqs :
        /\ req[r].method = "GET" /\ req[r].path = PathMcp /\ hist[r].entered
        /\ res[r].body = Doc("capabilities")
        /\ IsMcpPost(req[x]) /\ Dispatched(x)

IsHealth(q) == q.method = "GET" /\ q.path = PathHealth

\* C19: a GET /health never goes through the validator and never causes an
\* upstream call, and it is answered 200 with the health document, with or
\* without a bearer token, whether or not that token has been revoked.
C19_HealthAlwaysOk ==
    \A r \in Reqs :
        IsHealth(req[r])
            => /\ hist[r].validator = "none"
               /\ hist[r].upstream = "none"
               /\ st[r] \notin {"verifying", "upstream"}
               /\ st[r] = "finished"
                    => /\ res[r].status = 200
                       /\ res[r].body = Doc("health")
                       /\ hist[r].by = "health"

C19_Witness ==
    \E r, x \in Reqs :
        /\ IsHealth(req[r]) /\ req[r].tok = "valid" /\ "valid" \in hist[r].lateFor
        /\ st[r] = "finished" /\ res[r].status = 200
        /\ IsHealth(req[x]) /\ req[x].tok = "none"
        /\ st[x] = "finished" /\ res[x].status = 200

IsDiscovery(q) == q.method = "GET" /\ q.path = PathWellKnown

\* C20: the discovery document is answered 200 with an issuer that is the
\* configured server URL as it was given, with or without its trailing slash,
\* and a registration endpoint that is the /register path of that server; any
\* two requests are served the same document.
C20_DiscoveryDocument ==
    /\ \A r \in Reqs :
          (IsDiscovery(req[r]) /\ st[r] = "finished")
              => /\ res[r].status = 200
                 /\ res[r].body.kind = "metadata"
                 /\ res[r].body.issuer = env["SERVER_URL"].s
                 /\ res[r].body.registration = Url("https://srv", "/register")
    /\ \A r, x \in Reqs :
          (IsDiscovery(req[r]) /\ st[r] = "finished"
           /\ IsDiscovery(req[x]) /\ st[x] = "finished")
              => res[r].body = res[x].body

C20_Witness ==
    \E r, x \in Reqs :
        /\ r # x
        /\ env["SERVER_URL"] = Str("https://srv")
        /\ IsDiscovery(req[r]) /\ st[r] = "finished"
        /\ res[r].body.issuer = "https://srv"
        /\ IsDiscovery(req[x]) /\ st[x] = "finished"
        /\ req[x].tok # req[r].tok

MethodNotFound(id) ==
    [kind |-> "rpcError", code |-> -32601, message |-> "Method not found", id |-> id]

C22_ErrorBodyFixed ==
    /\ \A r \in Reqs :
          hist[r].by = "catch"
              => /\ res[r].status = 500
                 /\ res[r].body.kind = "rpcError"
                 /\ res[r].body.code = -32603
                 /\ res[r].body.message = "Internal server error"
                 /\ res[r].body.message \notin Errors
    /\ \A r, x \in Reqs :
          (hist[r].by = "catch" /\ hist[x].by = "catch" /\ req[r] = req[x])
              => res[r].body = res[x].body

C22_Witness ==
    \E r, x \in Reqs :
        /\ hist[r].by = "catch" /\ hist[x].by = "catch"
        /\ req[r] = req[x]
        /\ hist[r].error # hist[x].error
        /\ hist[r].error \in Errors /\ hist[x].error \in Errors
        /\ res[r].status = 500 /\ res[x].status = 500

\* C23: in require_auth, a call whose token validates but whose claims lack
\* one of the required permissions ends with 403 "Insufficient permissions"
\* and the wrapped handler not called; a call whose token fails validation
\* ends with 401 and the wrapped handler not called.
C23_RequireAuth ==
    py.at = "done"
        => /\ (py.token = "valid" /\ PyTruthy(py.permissions)
               /\ ~(py.permissions.items \subseteq py.granted))
                 => /\ py.status = 403
                    /\ py.detail = "Insufficient permissions"
                    /\ ~py.called
           /\ py.token # "valid" => py.status = 401 /\ ~py.called

\* the part of C23 that holds: the handler is called in neither case, and a
\* token that fails validation ends with 401
C23_HandlerNotCalled ==
    py.at = "done"
        => /\ (py.token = "valid" /\ PyTruthy(py.permissions)
               /\ ~(py.permissions.items \subseteq py.granted))
                 => ~py.called /\ py.status = 401
           /\ py.token # "valid" => py.status = 401 /\ ~py.called

\* C24: the process starts listening only in a step taken from the state in
\* which server.connect(transport) has resolved, and a request is in the
\* pipeline only while the process listens; when the connect step failed the
\* process has exited with code 1, and an exited process never listens.
C24_ListenAfterConnect ==
    /\ [](\A r \in Reqs : st[r] # "idle" => proc = "listening")
    /\ [](exitAt = "line 375" => proc = "exited" /\ exitCode = 1)
    /\ [][/\ (proc' = "listening" /\ proc # "listening") => proc = "connected"
          /\ (proc' = "exited" /\ proc = "connecting") => exitCode' = 1
          /\ proc = "exited" => proc' = "exited"]_vars

C24_Witness ==
    /\ proc = "listening"
    /\ exitCode = -1
    /\ \E r \in Reqs : \E m \in inflight : m.from = r /\ mapping[m.id] = r

\* the handler run h has attempted the first n shutdown steps, in their order
AttemptedUpTo(h, n) == h.attempts = SubSeq(ShutdownSteps, 1, n)

\* C25: every run of the SIGINT handler attempts transport.close() first and
\* server.close() second, the second also when the first threw, and a run
\* that reached its end has exited the process with code 0 whatever failed.
C25_ShutdownOrder ==
    /\ \A i \in DOMAIN sig :
          /\ sig[i].at = "transport.close" => AttemptedUpTo(sig[i], 1)
          /\ sig[i].at \in {"server.close", "exited"} => AttemptedUpTo(sig[i], 2)
          /\ sig[i].at = "exited" => proc = "exited" /\ exitCode = 0
    /\ exitAt = "line 394"
          => /\ exitCode = 0
             /\ \E i \in DOMAIN sig : sig[i].at = "exited"

C25_Witness ==
    \E i \in DOMAIN sig :
        /\ sig[i].at = "exited"
        /\ sig[i].failed = {"transport.close", "server.close"}
        /\ sig[i].attempts = <<"transport.close", "server.close">>
        /\ exitCode = 0

IsMcpPreflight(q) == q.method = "OPTIONS" /\ q.path = PathMcp

\* C26: an OPTIONS request to /mcp, sent without a bearer token, never comes
\* to the bearer validator, causes no upstream call, is never answered 401,
\* never enters a route of /mcp or the transport, and is answered 204 by the
\* CORS layer.
C26_PreflightBypassesBearer ==
    \A r \in Reqs :
        IsMcpPreflight(req[r])
            => /\ hist[r].validator = "none"
               /\ hist[r].upstream = "none"
               /\ st[r] # "verifying"
               /\ res[r].status # 401
               /\ res[r].wwwAuth = EmptyRes.wwwAuth
               /\ ~Handled(r)
               /\ ~Dispatched(r)
               /\ st[r] = "finished" => res[r].status = 204 /\ hist[r].by = "cors"

C26_Witness ==
    \E r \in Reqs :
        /\ IsMcpPreflight(req[r]) /\ req[r].tok = "none"
        /\ st[r] = "finished" /\ res[r].status = 204 /\ hist[r].by = "cors"

IsMcpGet(q) == q.method = "GET" /\ q.path = PathMcp

\* C27: a GET /mcp whose token is not a valid one is never answered with the
\* capability document and never enters its route, just as a POST /mcp whose
\* token is not a valid one never enters its route or the transport; both are
\* answered by the bearer middleware, unless the body parser answered first.
C27_GateCoversGet ==
    \A r \in Reqs :
        (req[r].path = PathMcp /\ req[r].method \in {"GET", "POST"} /\ req[r].tok # "valid")
            => /\ res[r].body.kind # "capabilities"
               /\ hist[r].by # "getMcp"
               /\ ~Handled(r)
               /\ ~Dispatched(r)
               /\ st[r] = "finished" => hist[r].by \in {"bearer", "json"}

C27_Witness ==
    \E r, x \in Reqs :
        /\ IsMcpGet(req[r]) /\ req[r].tok = "none"
        /\ st[r] = "finished" /\ res[r].status = 401 /\ hist[r].by = "bearer"
        /\ IsMcpGet(req[x]) /\ req[x].tok = "expired"
        /\ st[x] = "finished" /\ res[x].status = 401 /\ hist[x].by = "bearer"

(***************************************************************************)
(* The weather tools                                                       *)
(***************************************************************************)
\* the fetch came to a parsed body the tools can read
FetchGaveBody(o) == o.kind = "ok" /\ o.body.t = "object"

UpperCased(state) == IF state = "ca" THEN "CA" ELSE IF state = "ny" THEN "NY" ELSE state

AlertsDone == tool.name = "get-alerts" /\ tool.at = "done"
ForecastDone == tool.name = "get-forecast" /\ tool.at = "done"

\* C28: makeNWSRequest returns null for a network failure, a status that is
\* not 2xx and an unparseable body, and the parsed body only for an ok
\* response; get-alerts then answers with exactly one text item: "Failed to
\* retrieve alerts data" on null, "No active alerts for <STATE>" (upper-cased)
\* on an empty or missing feature list, the formatted alerts otherwise.
C28_AlertsAnswers ==
    /\ \A o \in FetchOutcomes(AlertsBodies) :
            makeNWSRequest(o) = IF o.kind = "ok" THEN o.body ELSE JNull
    /\ AlertsDone =>
        LET o == tool.fetched[1]
            item == tool.content[1]
            stateCode == UpperCased(tool.args[1])
        IN /\ Len(tool.fetched) = 1 /\ Len(tool.requests) = 1
           /\ tool.requests[1].args = <<stateCode>>
           /\ Len(tool.content) = 1 /\ item.type = "text"
           /\ ~FetchGaveBody(o) =>
                  item = TextItem("Failed to retrieve alerts data", <<>>, <<>>)
           /\ FetchGaveBody(o) /\ o.body.features = Undefined =>
                  item = TextItem("No active alerts for ", <<stateCode>>, <<>>)
           /\ FetchGaveBody(o) /\ o.body.features # Undefined =>
                  LET features == o.body.features.items
                  IN IF features = <<>>
                     THEN item = TextItem("No active alerts for ", <<stateCode>>, <<>>)
                     ELSE /\ item.text = "Active alerts for " /\ item.args = <<stateCode>>
                          /\ Len(item.items) = Len(features)
                          /\ \A i \in DOMAIN features :
                                 item.items[i] = formatAlert(features[i])

\* a response with alerts in its body and a status that is not 2xx was
\* answered with the failure text, and so was a lower-case state upper-cased
C28_Witness ==
    /\ AlertsDone /\ tool.args = <<"ca">>
    /\ tool.fetched[1].kind = "http" /\ tool.fetched[1].body.features # Undefined
    /\ tool.fetched[1].body.features.items # <<>>
    /\ tool.content = <<TextItem("Failed to retrieve alerts data", <<>>, <<>>)>>

\* the step get-forecast stopped at, from what its requests came to
FailedStep(fetched) ==
    IF ~FetchGaveBody(fetched[1]) THEN "grid point"
    ELSE IF fetched[1].body.properties = Undefined THEN "forecast URL"
    ELSE IF ~Truthy(fetched[1].body.properties.forecast) THEN "forecast URL"
    ELSE IF Len(fetched) < 2 THEN "waiting"
    ELSE IF ~FetchGaveBody(fetched[2]) THEN "forecast data"
    ELSE IF fetched[2].body.properties = Undefined THEN "no periods"
    ELSE IF fetched[2].body.properties.periods = Undefined THEN "no periods"
    ELSE IF fetched[2].body.properties.periods.items = <<>> THEN "no periods"
    ELSE "none"

StepText(step) ==
    CASE step = "grid point" -> "Failed to retrieve grid point data for coordinates: "
      [] step = "forecast URL" -> "Failed to get forecast URL from grid point data"
      [] step = "forecast data" -> "Failed to retrieve forecast data"
      [] step = "no periods" -> "No forecast periods available"
      [] step = "none" -> "Forecast for "

\* C29: get-forecast makes its requests in sequence: the forecast request
\* only after the grid-point request succeeded and returned a forecast URL,
\* at that URL; it stops at the first failing step with exactly one text item
\* naming that step, and makes no later request after a failure.
C29_ForecastSequence ==
    tool.name = "get-forecast" =>
        /\ Len(tool.requests) \in 1..2
        /\ tool.requests[1] = PointsUrl(tool.args[1], tool.args[2])
        /\ Len(tool.requests) <= Len(tool.fetched) + 1
        /\ Len(tool.requests) = 2 =>
               /\ FetchGaveBody(tool.fetched[1])
               /\ tool.fetched[1].body.properties # Undefined
               /\ Truthy(tool.fetched[1].body.properties.forecast)
               /\ tool.requests[2].path = tool.fetched[1].body.properties.forecast.s
        /\ tool.at = "done" =>
               LET step == FailedStep(tool.fetched)
               IN /\ step # "waiting"
                  /\ Len(tool.content) = 1 /\ tool.content[1].type = "text"
                  /\ tool.content[1].text = StepText(step)
                  /\ step \in {"grid point", "forecast URL"} =>
                         Len(tool.requests) = 1 /\ Len(tool.fetched) = 1
                  /\ step # "none" => tool.content[1].items = <<>>

\* the tool has stopped at each of the four steps
C29_Witness ==
    /\ ForecastDone /\ Len(tool.requests) = 2
    /\ tool.fetched[2].kind = "unparseable"
    /\ tool.content = <<TextItem("Failed to retrieve forecast data", <<>>, <<>>)>>

C29_WitnessGridPoint ==
    /\ ForecastDone /\ Len(tool.requests) = 1 /\ tool.fetched[1].kind = "network"
    /\ tool.content[1].text = StepText("grid point")

C29_WitnessForecastUrl ==
    /\ ForecastDone /\ Len(tool.requests) = 1 /\ tool.fetched[1].kind = "ok"
    /\ tool.content[1].text = StepText("forecast URL")

C29_WitnessNoPeriods ==
    /\ ForecastDone /\ Len(tool.requests) = 2
    /\ tool.content[1].text = StepText("no periods")

\* C30: the formatted forecast shows, for every period, the temperature the
\* weather service supplied, whatever its value (0 included), and "Unknown"
\* only when the period has no temperature; formatAlert puts "Unknown" and
\* "No headline" only in the place of fields that are absent.
C30_SuppliedValuesShown ==
    /\ ForecastDone /\ FailedStep(tool.fetched) = "none" =>
           LET periods == tool.fetched[2].body.properties.periods.items
               shown == tool.content[1].items
           IN \A i \in DOMAIN periods :
                 shown[i].temperature =
                     IF periods[i].temperature = Undefined THEN Str("Unknown")
                     ELSE periods[i].temperature
    /\ AlertsDone /\ tool.content[1].text = "Active alerts for " =>
           LET features == tool.fetched[1].body.features.items
               shown == tool.content[1].items
           IN \A i \in DOMAIN features :
                 /\ shown[i].event =
                        IF features[i].properties.event = Undefined THEN Str("Unknown")
                        ELSE features[i].properties.event
                 /\ shown[i].headline =
                        IF features[i].properties.headline = Undefined
                        THEN Str("No headline")
                        ELSE features[i].properties.headline

\* the part of C30 that holds: a temperature that is not zero is shown as
\* supplied and a period without one shows "Unknown"
C30_NonZeroShown ==
    ForecastDone /\ FailedStep(tool.fetched) = "none" =>
        LET periods == tool.fetched[2].body.properties.periods.items
            shown == tool.content[1].items
        IN \A i \in DOMAIN periods :
              /\ periods[i].temperature = Undefined => shown[i].temperature = Str("Unknown")
              /\ periods[i].temperature.t = "number" /\ periods[i].temperature.n # 0 =>
                     shown[i].temperature = periods[i].temperature

\* a period with the temperature 0 was shown with "Unknown"
C30_ZeroShownUnknown ==
    /\ ForecastDone /\ FailedStep(tool.fetched) = "none"
    /\ \E i \in DOMAIN tool.content[1].items :
           /\ tool.fetched[2].body.properties.periods.items[i].temperature = Num(0)
           /\ tool.content[1].items[i].temperature = Str("Unknown")
====
